---- MODULE Spec2Model ----
(***************************************************************************)
(* Model of the KSRTC Swift booking scripts: final.py, ver2.py and         *)
(* clossing_popup.py.  Each script is one coroutine, main, that launches a *)
(* browser, awaits a fixed list of steps and closes the browser in a       *)
(* finally block.  Every await of a page operation is one action whose     *)
(* outcome is drawn from {"ok", "timeout", "error"}: the operation         *)
(* returns, raises PlaywrightTimeoutError, or raises another Exception.    *)
(*                                                                         *)
(* Texts of the page are sequences of one-character strings, so that the   *)
(* substring tests of select_seats are computed, not assumed.              *)
(***************************************************************************)
EXTENDS Integers, Sequences, FiniteSets, TLC

VARIABLES
    script,         \* which file's main is running: "final", "ver2", "popup"
    pc,             \* position of the coroutine: [pos, s, k]
    exc,            \* exception propagating in main: "none", "timeout", "error"
    browser,        \* "none", "open", "closed"
    sessions,       \* number of browsers launched
    overlay,        \* the promotional overlay is on the page
    log,            \* records written by logging.*: <<level, message, argument>>
    shots,          \* outcomes of page.screenshot calls, with the browser state
    events,         \* history: <<"call"|"ret"|"raise"|"op", step>> in order
    failed,         \* history: steps in which a page operation raised
    chart,          \* the div.seatlook elements of the seat chart
    seat_priority,  \* argument of select_seats
    max_seats,      \* argument of select_seats
    selected_seats, \* local of select_seats
    found_seat,     \* local of select_seats: index in chart, 0 for None
    clicked         \* history: [k, n, seat] per seat click: seat_priority[k] = n, the element

vars == <<script, pc, exc, browser, sessions, overlay, log, shots, events, failed,
          chart, seat_priority, max_seats, selected_seats, found_seat, clicked>>

seatVars == <<chart, seat_priority, max_seats, selected_seats, found_seat, clicked>>

----------------------------------------------------------------------------
(* Bounds of the model *)

MaxChartLen == 3
MaxPrioLen == 2
MaxMaxSeats == 2

\* Seat numbers on the page and numbers a caller may ask for.
SeatNumbers == {3, 5, 30}
PrioNumbers == {3, 5}

Outcomes == {"ok", "timeout", "error"}

----------------------------------------------------------------------------
(* Texts *)

RECURSIVE Digits(_)
Digits(n) ==
    LET d == n % 10
        c == CASE d = 0 -> "0" [] d = 1 -> "1" [] d = 2 -> "2" [] d = 3 -> "3"
               [] d = 4 -> "4" [] d = 5 -> "5" [] d = 6 -> "6" [] d = 7 -> "7"
               [] d = 8 -> "8" [] OTHER -> "9"
    IN  IF n < 10 THEN <<c>> ELSE Digits(n \div 10) \o <<c>>

SeatLabel == <<"S", "e", "a", "t", ":", " ">>
SoldText == <<"S", "o", "l", "d">>

\* needle occurs in hay as a contiguous substring (Python's  needle in hay).
Contains(hay, needle) ==
    \E i \in 0..(Len(hay) - Len(needle)) :
        \A j \in 1..Len(needle) : hay[i + j] = needle[j]

LowerChar(c) == IF c = "S" THEN "s" ELSE c
Lower(t) == [i \in 1..Len(t) |-> LowerChar(t[i])]

\* Playwright's :has-text(): a case-insensitive substring match.
HasText(t, needle) == Contains(Lower(t), Lower(needle))

\* Text of a seat's div.farepopup.
FareText(seat) == SeatLabel \o Digits(seat.num) \o <<" ", "|", " ", "F">>

\* text_content() of a div.seatlook: its own label and its descendants' text.
TextContent(seat) ==
    (IF seat.sold THEN SoldText ELSE <<>>) \o FareText(seat)

Seats == [num : SeatNumbers, sold : BOOLEAN]

SeqsUpTo(S, n) == UNION {[1..m -> S] : m \in 0..n}

Charts == SeqsUpTo(Seats, MaxChartLen)
Priorities == SeqsUpTo(PrioNumbers, MaxPrioLen)

DefaultPriority == <<3, 5, 4, 6>>
DefaultMaxSeats == 1

----------------------------------------------------------------------------
(* The steps main awaits, in source order *)

\* main with select_dropoff_point awaited before select_pickup_point.
FinalStepsSwapped ==
    << "navigate_to_search_results", "select_bus_and_seats", "select_seats",
       "select_dropoff_point", "select_pickup_point",
       "enter_passenger_details", "enter_payee_details" >>

FinalSteps ==
    << "navigate_to_search_results", "select_bus_and_seats", "select_seats",
       "select_pickup_point", "select_dropoff_point",
       "enter_passenger_details", "enter_payee_details" >>

Ver2Steps ==
    << "navigate_to_search_results", "select_bus_and_seats", "select_seats" >>

Steps == IF script = "final" THEN FinalSteps ELSE Ver2Steps

StepName == Steps[pc.s]

\* Number of awaited page operations of a step outside the seat loop.
NumOps(step) ==
    CASE step = "select_dropoff_point" -> 3
      [] step = "enter_passenger_details" -> 6
      [] step = "enter_payee_details" -> 2
      [] OTHER -> 1

\* Exceptions a step's own try/except catches around its page operations.
Catches(step) ==
    IF step \in {"navigate_to_search_results", "select_bus_and_seats"}
    THEN {}
    ELSE {"timeout", "error"}

Entry(level, msg, arg) == <<level, msg, arg>>

\* Records logged by a step before its first await.
CallLog(step) ==
    CASE step = "navigate_to_search_results" ->
            << Entry("INFO", "Building and navigating to the search results page directly.", 0) >>
      [] step = "select_bus_and_seats" ->
            << Entry("INFO", "Searching for bus provided by", 0),
               Entry("INFO", "Bus card found. Clicking 'Select Seats' button.", 0) >>
      [] step = "select_seats" ->
            << Entry("INFO", "Searching for available seats...", 0) >>
      [] step = "select_pickup_point" ->
            << Entry("INFO", "Attempting to select pickup point", 0) >>
      [] step = "select_dropoff_point" ->
            << Entry("INFO", "Attempting to select dropoff point", 0) >>
      [] step = "enter_passenger_details" ->
            << Entry("INFO", "Entering passenger details.", 0) >>
      [] OTHER ->
            << Entry("INFO", "Entering payee details", 0) >>

\* Records logged after the k-th page operation of a step returned.
OkLog(step, k) ==
    CASE step = "select_pickup_point" /\ k = 1 ->
            << Entry("INFO", "Selected pickup point", 0) >>
      [] step = "select_dropoff_point" /\ k = 3 ->
            << Entry("INFO", "Selected dropoff point", 0) >>
      [] step = "enter_passenger_details" /\ k = 1 ->
            << Entry("INFO", "Name entered", 0) >>
      [] step = "enter_passenger_details" /\ k = 2 ->
            << Entry("INFO", "Age entered", 0) >>
      [] step = "enter_payee_details" /\ k = 1 ->
            << Entry("INFO", "UPI ID entered successfully.", 0) >>
      [] OTHER -> << >>

\* Record logged by a step's except clause.
CatchLog(step, e) ==
    CASE step = "select_pickup_point" /\ e = "timeout" ->
            Entry("ERROR", "Pickup point not found or dropdown did not appear.", 0)
      [] step = "select_pickup_point" ->
            Entry("ERROR", "An unexpected error occurred while selecting the pickup point", 0)
      [] step = "select_dropoff_point" /\ e = "timeout" ->
            Entry("ERROR", "Dropoff point not found.", 0)
      [] step = "select_dropoff_point" ->
            Entry("ERROR", "An unexpected error occurred", 0)
      [] step = "enter_passenger_details" /\ e = "timeout" ->
            Entry("ERROR", "Timeout occurred while entering passenger details.", 0)
      [] step = "enter_passenger_details" ->
            Entry("ERROR", "An unexpected error occurred while entering passenger details", 0)
      [] step = "enter_payee_details" /\ e = "timeout" ->
            Entry("ERROR", "Timeout occurred while locating the UPI ID field.", 0)
      [] step = "enter_payee_details" ->
            Entry("ERROR", "An unexpected error occurred while entering the UPI ID", 0)
      [] OTHER ->
            Entry("ERROR", "Seat chart not found.", 0)

At(pos) == pc.pos = pos

Goto(pos, s, k) == pc' = [pos |-> pos, s |-> s, k |-> k]

\* An exception leaves the step and reaches main's except clauses.
Propagate(step, e) ==
    /\ events' = Append(events, <<"raise", step>>)
    /\ exc' = e
    /\ Goto("except", 0, 0)

----------------------------------------------------------------------------
(* select_seats: which element a priority number selects *)

\* final.py's match without the test for "Sold".
FinalMatchesNoSoldCheck(seat, n) ==
    Contains(FareText(seat), SeatLabel \o Digits(n) \o <<" ", "|">>)

\* final.py: skip sold seats, then match  "Seat: {seat_num} |"  in the fare text.
FinalMatches(seat, n) ==
    /\ ~Contains(TextContent(seat), SoldText)
    /\ Contains(FareText(seat), SeatLabel \o Digits(n) \o <<" ", "|">>)

\* ver2.py: div.seatlook that has div.farepopup:has-text('Seat: {seat_num}').
Ver2Matches(seat, n) ==
    HasText(FareText(seat), SeatLabel \o Digits(n))

Matches(seat, n) ==
    IF script = "final" THEN FinalMatches(seat, n) ELSE Ver2Matches(seat, n)

\* Index of the first matching element in document order, 0 when there is none.
FindSeat(c, n) ==
    LET hits == {i \in 1..Len(c) : Matches(c[i], n)}
    IN  IF hits = {} THEN 0 ELSE CHOOSE i \in hits : \A j \in hits : i <= j

----------------------------------------------------------------------------
(* main of final.py and ver2.py *)

\* async_playwright / chromium.launch / new_context / new_page.
Launch ==
    /\ At("start")
    /\ browser = "none"
    /\ browser' = "open"
    /\ sessions' = sessions + 1
    /\ IF script = "popup"
       THEN /\ log' = Append(log, Entry("INFO", "Navigating to", 0))
            /\ Goto("inline", 0, 1)
       ELSE /\ log' = log
            /\ Goto("call", 1, 0)
    /\ UNCHANGED <<script, exc, overlay, shots, events, failed, seatVars>>

\* main calls the next step; the step runs up to its first await.
Call ==
    /\ At("call")
    /\ log' = log \o CallLog(StepName)
    /\ events' = Append(events, <<"call", StepName>>)
    /\ Goto("op", pc.s, 1)
    /\ UNCHANGED <<script, exc, browser, sessions, overlay, shots, failed, seatVars>>

\* The awaited page operation pc.k of a step returns or raises.
Await ==
    /\ At("op")
    /\ StepName # "select_seats"
    /\ \E o \in Outcomes :
         IF o = "ok"
         THEN /\ log' = log \o OkLog(StepName, pc.k)
              /\ IF pc.k = NumOps(StepName)
                 THEN Goto("ret", pc.s, 0)
                 ELSE Goto("op", pc.s, pc.k + 1)
              /\ UNCHANGED <<exc, events, failed>>
         ELSE /\ failed' = failed \cup {StepName}
              /\ IF o \in Catches(StepName)
                 THEN /\ log' = Append(log, CatchLog(StepName, o))
                      /\ Goto("ret", pc.s, 0)
                      /\ UNCHANGED <<exc, events>>
                 ELSE /\ log' = log
                      /\ Propagate(StepName, o)
    /\ UNCHANGED <<script, browser, sessions, overlay, shots, seatVars>>

\* The step returned to main, which goes on to the next statement.
Return ==
    /\ At("ret")
    /\ events' = Append(events, <<"ret", StepName>>)
    /\ IF pc.s = Len(Steps)
       THEN Goto("success", 0, 0)
       ELSE Goto("call", pc.s + 1, 0)
    /\ chart' = << >>
    /\ selected_seats' = 0
    /\ found_seat' = 0
    /\ UNCHANGED <<script, exc, browser, sessions, overlay, log, shots, failed,
                   seat_priority, max_seats, clicked>>

\* The last statements of main's try block.
Success ==
    /\ At("success")
    /\ log' = log \o
         (IF script = "final"
          THEN << Entry("INFO", "Total time taken to reach the last command", 0) >>
          ELSE << >>)
         \o << Entry("INFO", "SUCCESS: All steps completed successfully.", 0) >>
    /\ Goto("finally", 0, 0)
    /\ UNCHANGED <<script, exc, browser, sessions, overlay, shots, events, failed, seatVars>>

\* main's except clauses: log the error, then await page.screenshot.
Except ==
    /\ At("except")
    /\ log' = Append(log,
                IF exc = "timeout"
                THEN Entry("ERROR", "Timeout occurred. The page structure might have changed.", 0)
                ELSE Entry("ERROR", "An unexpected error occurred", 0))
    /\ \E ok \in BOOLEAN :
         /\ shots' = Append(shots, [ok |-> ok, browser |-> browser])
         /\ exc' = IF ok THEN "none" ELSE "error"
    /\ Goto("finally", 0, 0)
    /\ UNCHANGED <<script, browser, sessions, overlay, events, failed, seatVars>>

\* main's finally clause: browser.close(), then the closing record.
Finally ==
    /\ At("finally")
    /\ browser' = "closed"
    /\ log' = Append(log, Entry("INFO", "Automation session closed.", 0))
    /\ Goto("closed", 0, 0)
    /\ UNCHANGED <<script, exc, sessions, overlay, shots, events, failed, seatVars>>

----------------------------------------------------------------------------
(* select_seats *)

\* await seat_chart.wait_for(timeout=15000) inside try / bare except.
SeatsWaitFor ==
    /\ At("op")
    /\ StepName = "select_seats"
    /\ \E o \in Outcomes :
         IF o = "ok"
         THEN /\ log' = Append(log, Entry("INFO", "Seat chart found. Checking for available seats.", 0))
              /\ chart' \in Charts
              /\ Goto("loop", pc.s, 1)
              /\ failed' = failed
         ELSE /\ log' = Append(log, Entry("ERROR", "Seat chart not found.", 0))
              /\ chart' = chart
              /\ Goto("ret", pc.s, 0)
              /\ failed' = failed \cup {"select_seats"}
    /\ selected_seats' = 0
    /\ found_seat' = 0
    /\ UNCHANGED <<script, exc, browser, sessions, overlay, shots, events,
                   seat_priority, max_seats, clicked>>

\* One pass of  for seat_num in seat_priority  up to the click, or the loop's end
\* and the closing record of select_seats.
LoopHead ==
    /\ At("loop")
    /\ IF pc.k > Len(seat_priority) \/ selected_seats >= max_seats
       THEN /\ log' = Append(log,
                        IF selected_seats = 0
                        THEN Entry("WARNING", "No priority seats were selected.", 0)
                        ELSE Entry("INFO", "Selected seat(s).", selected_seats))
            /\ found_seat' = found_seat
            /\ Goto("ret", pc.s, 0)
       ELSE LET n == seat_priority[pc.k]
                f == FindSeat(chart, n)
            IN  /\ found_seat' = f
                /\ IF f # 0
                   THEN /\ log' = Append(log, Entry("INFO", "Selecting seat", n))
                        /\ Goto("click", pc.s, pc.k)
                   ELSE /\ log' = IF script = "ver2"
                                  THEN Append(log, Entry("INFO", "Seat not available.", n))
                                  ELSE log
                        /\ Goto("loop", pc.s, pc.k + 1)
    /\ UNCHANGED <<script, exc, browser, sessions, overlay, shots, events, failed,
                   chart, seat_priority, max_seats, selected_seats, clicked>>

\* await found_seat.click()  /  await seat_locator.first.click(): not in a try.
SeatClick ==
    /\ At("click")
    /\ \E o \in Outcomes :
         IF o = "ok"
         THEN /\ clicked' = Append(clicked, [k |-> pc.k, n |-> seat_priority[pc.k],
                                           seat |-> chart[found_seat]])
              /\ selected_seats' = selected_seats + 1
              /\ IF script = "final"
                 THEN Goto("confirm", pc.s, pc.k)
                 ELSE Goto("loop", pc.s, pc.k + 1)
              /\ UNCHANGED <<exc, events, failed>>
         ELSE /\ failed' = failed \cup {"select_seats"}
              /\ Propagate("select_seats", o)
              /\ UNCHANGED <<clicked, selected_seats>>
    /\ UNCHANGED <<script, browser, sessions, overlay, log, shots,
                   chart, seat_priority, max_seats, found_seat>>

\* final.py: await confirm_button.click(timeout=1000) inside try / except.
Confirm ==
    /\ At("confirm")
    /\ \E o \in Outcomes :
         /\ log' = Append(log,
              CASE o = "ok" -> Entry("INFO", "Confirmation button was successfully clicked.", 0)
                [] o = "timeout" -> Entry("INFO", "No confirmation pop-up was found, continuing...", 0)
                [] OTHER -> Entry("ERROR", "An unexpected error occurred while clicking the button", 0))
         /\ failed' = IF o = "error" THEN failed \cup {"select_seats"} ELSE failed
    /\ Goto("loop", pc.s, pc.k + 1)
    /\ UNCHANGED <<script, exc, browser, sessions, overlay, shots, events, seatVars>>

----------------------------------------------------------------------------
(* main of clossing_popup.py: the page operations are inline in the try block *)

PopupOps ==
    << "goto", "close_popup", "wait_for_form",
       "fill_from", "click_from", "fill_to", "click_to" >>

\* close_button.click awaited without the inner try.
PopupCloseNoCatch == {}

\* Exceptions the inner try around close_button.click catches.

PopupCloseCatches == {"timeout"}

\* Records logged after an inline operation returned.
PopupOkLog(k) ==
    CASE k = 1 -> << Entry("INFO", "Checking for and closing promotional messages...", 0) >>
      [] k = 3 -> << Entry("INFO", "Filling 'From' city", 0) >>
      [] k = 5 -> << Entry("INFO", "Filling 'To' city", 0) >>
      [] k = 7 -> << Entry("INFO", "SUCCESS: 'From' and 'To' cities selected.", 0) >>
      [] OTHER -> << >>

\* Every inline await except the click on the overlay's close button.
PopupOp ==
    /\ At("inline")
    /\ pc.k # 2
    /\ \E o \in Outcomes :
         IF o = "ok"
         THEN /\ log' = log \o PopupOkLog(pc.k)
              /\ events' = Append(events, <<"op", PopupOps[pc.k]>>)
              /\ overlay' \in IF pc.k = 1 THEN BOOLEAN ELSE {overlay}
              /\ IF pc.k = Len(PopupOps)
                 THEN Goto("finally", 0, 0)
                 ELSE Goto("inline", 0, pc.k + 1)
              /\ UNCHANGED <<exc, failed>>
         ELSE /\ failed' = failed \cup {PopupOps[pc.k]}
              /\ Propagate(PopupOps[pc.k], o)
              /\ UNCHANGED <<log, overlay>>
    /\ UNCHANGED <<script, browser, sessions, shots, seatVars>>

\* await close_button.click(timeout=10000) inside try / except PlaywrightTimeoutError.
PopupClose ==
    /\ At("inline")
    /\ pc.k = 2
    /\ \E o \in Outcomes :
         /\ o = "ok" => overlay
         /\ IF o = "ok"
            THEN /\ overlay' = FALSE
                 /\ log' = Append(log, Entry("INFO", "Promotional pop-up closed successfully.", 0))
                 /\ events' = Append(events, <<"op", "close_popup">>)
                 /\ Goto("inline", 0, 3)
                 /\ UNCHANGED <<exc, failed>>
            ELSE IF o \in PopupCloseCatches
            THEN /\ log' = Append(log, Entry("INFO", "No promotional pop-up found, continuing...", 0))
                 /\ events' = Append(events, <<"caught", "close_popup">>)
                 /\ Goto("inline", 0, 3)
                 /\ UNCHANGED <<exc, failed, overlay>>
            ELSE /\ failed' = failed \cup {"close_popup"}
                 /\ Propagate("close_popup", o)
                 /\ UNCHANGED <<log, overlay>>
    /\ UNCHANGED <<script, browser, sessions, shots, seatVars>>

----------------------------------------------------------------------------
(* Specifications *)

\* One run of one script's main; main calls select_seats with its defaults.
Init ==
    /\ script \in {"final", "ver2", "popup"}
    /\ pc = [pos |-> "start", s |-> 0, k |-> 0]
    /\ exc = "none"
    /\ browser = "none"
    /\ sessions = 0
    /\ overlay = FALSE
    /\ log = << Entry("INFO", "Starting bus booking automation for KSRTC Swift.", 0) >>
    /\ shots = << >>
    /\ events = << >>
    /\ failed = {}
    /\ chart = << >>
    /\ seat_priority = DefaultPriority
    /\ max_seats = DefaultMaxSeats
    /\ selected_seats = 0
    /\ found_seat = 0
    /\ clicked = << >>

Next ==
    \/ Launch
    \/ Call
    \/ Await
    \/ Return
    \/ Success
    \/ Except
    \/ Finally
    \/ SeatsWaitFor
    \/ LoopHead
    \/ SeatClick
    \/ Confirm
    \/ PopupOp
    \/ PopupClose

Spec == Init /\ [][Next]_vars

\* select_seats of final.py or ver2.py called on an open page with arguments
\* drawn from the bounded sets.
SeatsInit ==
    /\ script \in {"final", "ver2"}
    /\ pc = [pos |-> "call", s |-> 3, k |-> 0]
    /\ exc = "none"
    /\ browser = "open"
    /\ sessions = 1
    /\ overlay = FALSE
    /\ log = << >>
    /\ shots = << >>
    /\ events = << >>
    /\ failed = {}
    /\ chart = << >>
    /\ seat_priority \in Priorities
    /\ max_seats \in 1..MaxMaxSeats
    /\ selected_seats = 0
    /\ found_seat = 0
    /\ clicked = << >>

SeatsNext ==
    \/ Call
    \/ SeatsWaitFor
    \/ LoopHead
    \/ SeatClick
    \/ Confirm

SeatsSpec == SeatsInit /\ [][SeatsNext]_vars

----------------------------------------------------------------------------
(* Helpers of the properties *)

Logged(level, msg) == \E i \in 1..Len(log) : log[i][1] = level /\ log[i][2] = msg

ErrorLogged == \E i \in 1..Len(log) : log[i][1] = "ERROR"

SuccessLogged == Logged("INFO", "SUCCESS: All steps completed successfully.")

Happened(kind, step) == \E i \in 1..Len(events) : events[i] = <<kind, step>>

\* Steps in the order main called them.
Calls == SelectSeq(events, LAMBDA e : e[1] = "call")

\* Number of steps called and neither returned nor left by an exception.
InFlight ==
    Len(Calls) - Len(SelectSeq(events, LAMBDA e : e[1] \in {"ret", "raise"}))

\* A seat a passenger can book under priority number n.
Selectable(seat, n) == ~seat.sold /\ seat.num = n

\* Positions of seat_priority whose number has a selectable seat in the chart.
PrioSelectable ==
    {k \in 1..Len(seat_priority) :
        \E i \in 1..Len(chart) : Selectable(chart[i], seat_priority[k])}

ClickedKs == {clicked[i].k : i \in 1..Len(clicked)}

SeatsReturned == At("ret") /\ Logged("INFO", "Seat chart found. Checking for available seats.")

\* select_seats returned having selected by priority.
ByPriority ==
    SeatsReturned =>
      /\ \A i, j \in 1..Len(clicked) : i < j => clicked[i].k < clicked[j].k
      /\ \A i \in 1..Len(clicked) : Selectable(clicked[i].seat, clicked[i].n)
      /\ \A k \in 1..Len(seat_priority) :
            (k \notin ClickedKs /\ (Len(clicked) < max_seats \/ \E c \in ClickedKs : k < c))
               => k \notin PrioSelectable
      /\ (max_seats = 1 /\ PrioSelectable # {}) =>
            /\ Len(clicked) = 1
            /\ \A k \in PrioSelectable : clicked[1].k <= k
      /\ PrioSelectable = {} =>
            /\ clicked = << >>
            /\ Logged("WARNING", "No priority seats were selected.")

----------------------------------------------------------------------------
(* Properties *)

\* C1: in every script's main, whenever a step of the run failed (a page
\* operation of it raised the timeout exception or another exception), then by
\* the time the browser is closed the failure was logged as an error and a
\* screenshot was taken while the browser was still open.
C1_ScreenshotOnEveryFailure ==
    (browser = "closed" /\ failed # {}) =>
        /\ ErrorLogged
        /\ \E i \in 1..Len(shots) : shots[i].browser = "open"

\* C2: in one run of final.main the steps are called at most once each and in
\* the fixed order of the source, a step is called only right after the
\* previous one returned, at most one step is in flight, and at most one
\* browser session is launched.
C2_StepsOnceInOrder ==
    script = "final" =>
      /\ sessions <= 1
      /\ browser = "none" => events = << >>
      /\ Len(Calls) <= 7
      /\ \A i \in 1..Len(Calls) :
            Calls[i][2] =
              << "navigate_to_search_results", "select_bus_and_seats", "select_seats",
                 "select_pickup_point", "select_dropoff_point",
                 "enter_passenger_details", "enter_payee_details" >>[i]
      /\ \A i \in 2..Len(events) :
            events[i][1] = "call" => events[i - 1][1] = "ret"
      /\ \A i \in 1..Len(events) :
            events[i][1] \in {"ret", "raise"} =>
               \E j \in 1..(i - 1) :
                  /\ events[j] = <<"call", events[i][2]>>
                  /\ \A m \in (j + 1)..(i - 1) : events[m][1] # "call"
      /\ InFlight \in {0, 1}

\* C2 witness: a run of final.main called all seven steps and closed the browser.
C2_Witness ==
    /\ script = "final"
    /\ browser = "closed"
    /\ Len(Calls) = 7
    /\ SuccessLogged

\* C3: main logs SUCCESS only when every step completed without a failure; in
\* final.py that includes the seat chart being found and a seat being clicked.
C3_SuccessOnlyWithoutFailure ==
    SuccessLogged =>
        /\ failed = {}
        /\ ~ErrorLogged
        /\ script = "final" => clicked # << >>

\* C4: in clossing_popup.main the overlay is handled before any city field is
\* touched; a close button clicked in time dismisses the overlay; a close
\* button that times out is no failure (no error logged, no screenshot, the
\* timeout never reaches main's except clauses) and the script goes on to wait
\* for the form; the From city is filled and chosen before the To city.
C4_PopupHandledFirst ==
    script = "popup" =>
      /\ \A c \in {"fill_from", "click_from", "fill_to", "click_to"} :
            Happened("op", c) =>
               Happened("op", "close_popup") \/ Happened("caught", "close_popup")
      /\ Happened("op", "close_popup") => ~overlay
      /\ (At("except") /\ events[Len(events)] = <<"raise", "close_popup">>)
            => exc = "error"
      /\ (events # << >> /\ events[Len(events)] = <<"caught", "close_popup">>) =>
            /\ pc = [pos |-> "inline", s |-> 0, k |-> 3]
            /\ ~ErrorLogged
            /\ shots = << >>
            /\ browser = "open"
            /\ failed = {}
      /\ \A i \in 1..Len(events) :
            events[i] = <<"op", "fill_to">> =>
               \E j, m \in 1..(i - 1) :
                  /\ j < m
                  /\ events[j] = <<"op", "fill_from">>
                  /\ events[m] = <<"op", "click_from">>

\* C4 witness: the close button timed out and the run still chose both cities.
C4_Witness ==
    /\ script = "popup"
    /\ Happened("caught", "close_popup")
    /\ Happened("op", "click_to")
    /\ ~ErrorLogged
    /\ shots = << >>

\* C5: select_seats of final.py and of ver2.py selects by priority: clicks
\* follow the order of seat_priority, a number is passed over only when no
\* selectable seat has it, with max_seats = 1 the clicked seat is the first
\* priority number that has a selectable seat, and with no selectable priority
\* seat nothing is clicked and the warning is logged.
C5_SelectsByPriority == ByPriority

\* The same statement for final.py alone.
FinalSelectsByPriority == script = "final" => ByPriority

\* C6: whenever select_seats logs "Selecting seat n" and clicks, the clicked
\* seat's number is exactly n, in final.py and in ver2.py.
C6_ClickedIsExactNumber ==
    \A i \in 1..Len(clicked) : clicked[i].seat.num = clicked[i].n

\* C7: final.select_seats never clicks a seat whose text contains "Sold".
C7_NeverClicksSold ==
    script = "final" =>
        \A i \in 1..Len(clicked) : ~Contains(TextContent(clicked[i].seat), SoldText)

\* C7 witness: the only seat of the chart carries the highest-priority number
\* and is sold; select_seats returned without a click.
C7_Witness ==
    /\ script = "final"
    /\ SeatsReturned
    /\ Len(seat_priority) > 0
    /\ Len(chart) = 1
    /\ chart[1].sold
    /\ chart[1].num = seat_priority[1]
    /\ clicked = << >>
    /\ Logged("WARNING", "No priority seats were selected.")

====
